---- MODULE Spec2Model ----
(***************************************************************************)
(* Model of the diagnostic transport of irmsia:                            *)
(*   - GrpcAnomalyClient (backend/services/grpc_anomaly_client.py) and the *)
(*     /anomaly/detect, /anomaly/grpc/status and /anomaly/model/info       *)
(*     endpoints built on it (backend/api/anomaly_router.py), with the     *)
(*     files of UPLOAD_DIR and RESULTS_DIR and the endpoints that write or *)
(*     delete them (detect-batch, report, visualization, results)          *)
(*   - the DiagnoseDicomStream / DiagnoseBatch handlers of the compute     *)
(*     service (grpc-deeplearning/server/diagnostic_server.py) and the     *)
(*     chunking client (grpc-deeplearning/client/diagnostic_client.py).    *)
(*                                                                         *)
(* The client code is asyncio code: a task runs without interruption from  *)
(* one await to the next.  Each action below resumes one task at the await *)
(* it is suspended on and runs it (operator Run) up to its next await.  A   *)
(* release of the connection lock only wakes the first waiter up: the      *)
(* waiter takes the lock in a step of its own (LockGranted), ahead of      *)
(* every event that was produced after the release.                        *)
(***************************************************************************)
EXTENDS Integers, Sequences, FiniteSets, TLC

\* GrpcAnomalyClient.__init__(max_retries=3)
max_retries == 3

\* number of operations (endpoint / client calls) started in one behaviour
MaxCalls == 3

\* tasks that may run on the shared client; the sequential specification
\* Spec runs task 1 only
AllTasks == {1, 2}
SeqTasks == {1}

VARIABLES
    grpcAvailable,  \* module flag GRPC_AVAILABLE
    instance,       \* _grpc_client_instance is not None
    connected,      \* self._connected
    channel,        \* self.channel: "None", or the state of the channel object
    stub,           \* self.stub: "None", or the state of the channel it is bound to
    lock,           \* holder of self._connection_lock, 0 when free
    waiters,        \* the tasks waiting for the lock, first come first
    tk,             \* per task: position, locals, inputs and the outcome of its call
    degraded,       \* history: a health check failed / an RPC returned UNAVAILABLE
                    \*          and no connection attempt has succeeded since
    onlyUnavail,    \* history: every RPC so far ended UNAVAILABLE
    calls           \* history: operations started

VARIABLES
    sPayload,       \* the bytes of the file the streaming client uploads
    sChunkSize,     \* chunk_size of diagnose_dicom_stream
    sReqs,          \* the request stream as the server receives it
    sPos,           \* requests consumed by DiagnoseDicomStream so far
    sPc,            \* position of the DiagnoseDicomStream generator
    sRequestId,     \* request_id
    sMetadata,      \* metadata is not None
    sChunks,        \* chunks
    sTotal,         \* total_bytes
    sData,          \* dicom_data = b''.join(chunks)
    sOut            \* the responses yielded so far

streamVars == <<sPayload, sChunkSize, sReqs, sPos, sPc, sRequestId, sMetadata,
                sChunks, sTotal, sData, sOut>>

VARIABLES
    bReqs,          \* the requests the batch client streams, in order
    bBatchSize,     \* self.batch_size
    bPos,           \* requests consumed by DiagnoseBatch so far
    bPc,            \* position of the DiagnoseBatch generator
    bRequests,      \* batch_requests
    bTensors,       \* batch_tensors (the request each tensor was made from)
    bNext,          \* index in batch_requests of the request to answer next
    bOut            \* the responses yielded so far

batchVars == <<bReqs, bBatchSize, bPos, bPc, bRequests, bTensors, bNext, bOut>>

VARIABLES
    now,            \* the last reading of datetime.now():
                    \*   <<second, microsecond>>
    uploads,        \* UPLOAD_DIR: file name -> the image it holds: the task
                    \*   that handled the request it came with, whether it
                    \*   can be decoded and whether it shows an anomaly
    results         \* RESULTS_DIR: file name -> what the file holds: the
                    \*   task that wrote it, its image_id and whether it
                    \*   has a 'visualization'

fileVars == <<now, uploads, results>>

VARIABLES
    eIn,            \* what one run of a diagnosis function is given
    eOut            \* the result it returned, in a sequence (empty before it ran)

evalVars == <<eIn, eOut>>

\* the variables of the parts modelled further down
auxVars == <<fileVars, evalVars>>

clientVars == <<grpcAvailable, instance, connected, channel, stub, lock, waiters,
                tk, degraded, onlyUnavail, calls>>

----------------------------------------------------------------------------
(* Task records *)

Fresh ==
    [ op |-> "idle", pc |-> "idle", stack |-> <<>>,
      retry |-> TRUE, cRetries |-> 0, dRetries |-> 0,
      cAttempts |-> 0,         \* channels created by the connect entered last
      cProbed |-> FALSE,       \* a HealthCheck probe of that connect succeeded
      ext |-> "none",          \* Path(image_path).suffix
      isDicom |-> FALSE,       \* the suffix is one of .dcm / .dicom
      decodable |-> TRUE,      \* the image can be decoded
      anomaly |-> FALSE,       \* the local model finds an anomaly in it
      visualization |-> TRUE,  \* return_visualization
      found |-> TRUE,          \* the file was there when it was last opened
      hasVis |-> FALSE,        \* result['visualization'] is not None
      rpc |-> "none", rpcCut |-> FALSE,
      healthy |-> FALSE,
      det |-> "none",          \* how client.detect_anomaly ended in this call
      out |-> "none",          \* how the call ended for its caller
      kind |-> "none",         \* what the returned dict is
      producer |-> "none",     \* the backend that computed the returned dict
      tag |-> "absent",        \* result['backend_used']
      localRuns |-> 0,         \* runs of the local service.detect_anomaly
      attempts |-> 0,          \* DiagnoseDicom RPCs issued
      remoteCompleted |-> FALSE,
      invalid |-> FALSE,       \* an RPC of this call failed with INVALID_ARGUMENT
      startedDegraded |-> FALSE,
      timestamp |-> <<>>,      \* endpoint: timestamp
      analysed |-> 0,          \* endpoint: the task whose image was read last
      image_id |-> <<>> ]      \* result['image_id'], or the image_id asked for

\* a task is suspended (or not running) exactly at these positions
AwaitLabels ==
    { "idle", "done",
      "c_wait", "c_closed", "c_probe", "c_tclose", "c_eclose",
      "c_sleep", "h_rpc", "d_rpc", "d_sleep", "x_close" }

\* the snapshot the handlers are written over
State ==
    [ grpcAvailable |-> grpcAvailable, instance |-> instance,
      connected |-> connected, channel |-> channel, stub |-> stub,
      lock |-> lock, waiters |-> waiters, tk |-> tk, degraded |-> degraded,
      onlyUnavail |-> onlyUnavail, calls |-> calls,
      now |-> now, uploads |-> uploads, results |-> results ]

SetTk(s, t, r) == [s EXCEPT !.tk = [@ EXCEPT ![t] = r]]

\* call a coroutine of the client: continue at target, come back at ret
Call(r, target, ret) == [r EXCEPT !.pc = target, !.stack = <<ret>> \o @]

\* return to the caller
Ret(r) == [r EXCEPT !.pc = Head(r.stack), !.stack = Tail(r.stack)]

----------------------------------------------------------------------------
(* The gRPC channel as the client sees it *)

\* grpc.aio.insecure_channel(...) and DicomDiagnosticServiceStub(channel):
\* a new open channel with the stub bound to it; RPCs still in flight stay on
\* the channel they were issued on
NewChannel(s) ==
    [s EXCEPT !.channel = "open", !.stub = "open",
              !.tk = [u \in AllTasks |->
                        IF @[u].rpc = "cur" THEN [@[u] EXCEPT !.rpc = "old"]
                        ELSE @[u]]]

\* await self.channel.close(): the channel object is closed, the stub bound
\* to it is now a stub of a closed channel, and the RPCs in flight on it are
\* cancelled
CloseChannel(s) ==
    [s EXCEPT !.channel = "closed",
              !.stub = IF @ = "None" THEN "None" ELSE "closed",
              !.tk = [u \in AllTasks |->
                        IF @[u].rpc = "cur" THEN [@[u] EXCEPT !.rpcCut = TRUE]
                        ELSE @[u]]]

\* asyncio.CancelledError raised into a task whose RPC was cancelled: it is
\* a BaseException, no `except Exception` of the client or of the router
\* catches it; `async with` releases the lock on the way out, and a task
\* that was waiting for the lock leaves the queue
Cancelled(s, t) ==
    [s EXCEPT !.lock = IF @ = t THEN 0 ELSE @,
              !.waiters = SelectSeq(@, LAMBDA u : u # t),
              !.tk = [@ EXCEPT ![t] =
                        [@ EXCEPT !.pc = "done", !.stack = <<>>, !.rpc = "none",
                                  !.rpcCut = FALSE, !.out = "cancelled"]]]

\* a connection attempt succeeded
Reconnected(s) ==
    [s EXCEPT !.degraded = FALSE,
              !.tk = [u \in AllTasks |-> [@[u] EXCEPT !.startedDegraded = FALSE]]]

----------------------------------------------------------------------------
(* The files of UPLOAD_DIR and RESULTS_DIR *)

\* bounds of the clock: seconds, and microseconds within a second
MaxClock == 1
MaxMicro == 1

\* the readings of datetime.now()
Clock == (0..MaxClock) \X (0..MaxMicro)

\* datetime.now() gives the previous reading or a later one
Readings(c) ==
    {d \in Clock : d[1] > c[1] \/ (d[1] = c[1] /\ d[2] >= c[2])}

\* strftime("%Y%m%d_%H%M%S")  (lines 97 and 269)
Seconds(c) == <<c[1]>>

\* strftime("%Y%m%d_%H%M%S_%f")  (line 183)
Micros(c) == <<c[1], c[2]>>

\* the suffixes of the uploaded file names
Exts == {".dcm", ".dicom", ".DCM", ".jpg"}

\* str.lower() on a suffix
SuffixLower(ext) == IF ext = ".DCM" THEN ".dcm" ELSE ext

\* grpc_anomaly_client.py line 233:
\* Path(image_path).suffix.lower() in ['.dcm', '.dicom']
IsDicomFile(ext) == SuffixLower(ext) \in {".dcm", ".dicom"}

\* the images a caller may send: the suffix of the file name, whether the
\* bytes can be decoded, and whether the local model finds an anomaly
Images ==
    {i \in [ext : Exts, decodable : BOOLEAN, anomaly : BOOLEAN] :
        i.anomaly => i.decodable}

\* a readable .dcm file in which the local model finds no anomaly
PlainDcm == [ext |-> ".dcm", decodable |-> TRUE, anomaly |-> FALSE]

\* the readable .dcm files
ReadableDcm == {i \in Images : i.ext = ".dcm" /\ i.decodable}

\* open(path, "w") and write: the file is created or overwritten
WriteFile(dir, name, content) ==
    [n \in DOMAIN dir \cup {name} |-> IF n = name THEN content ELSE dir[n]]

\* Path.unlink()
RemoveFile(dir, name) == [n \in DOMAIN dir \ {name} |-> dir[n]]

\* saved_path = UPLOAD_DIR / f"upload_{timestamp}{file_ext}"
\* (lines 97-99 and 183-185)
UploadName(timestamp, ext) == <<"upload_", timestamp, ext>>

\* result_file = RESULTS_DIR / f"result_{timestamp}.json"  (line 153)
ResultName(timestamp) == <<"result_", timestamp, ".json">>

\* report_file = RESULTS_DIR / f"report_{report_timestamp}.json"  (line 270)
ReportName(timestamp) == <<"report_", timestamp, ".json">>

\* temp_file = RESULTS_DIR / f"vis_{image_id}.png"  (line 309)
VisName(id) == <<"vis_", id, ".png">>

\* result['image_id'] = f"{timestamp}{file_ext}"  (line 148)
ImageId(r) == <<r.timestamp, r.ext>>

\* upload_file = UPLOAD_DIR / f"upload_{image_id}"  (line 406)
UploadOf(id) == UploadName(id[1], id[2])

\* file_ext = Path(file.filename).suffix: the suffix of the name the
\* client gave the file, as it is
FileExt(r) == r.ext

\* lines 96-102: the uploaded image is saved under the current second
SaveUpload(s, t) ==
    LET r == s.tk[t] IN
    SetTk([s EXCEPT !.uploads = WriteFile(@, UploadName(Seconds(s.now), FileExt(r)),
                                          [task |-> t,
                                           decodable |-> r.decodable,
                                           anomaly |-> r.anomaly])],
          t, [r EXCEPT !.timestamp = Seconds(s.now), !.pc = "e_start"])

\* a backend opens image_path (grpc_anomaly_client.py lines 230-244, or the
\* local service): a request of the endpoint gets what the file at
\* saved_path holds at that moment, or finds no file there; a direct caller
\* of the client reads its own file
ReadImage(s, r) ==
    IF r.op = "endpoint"
    THEN LET name == UploadName(r.timestamp, r.ext) IN
         IF name \in DOMAIN s.uploads
         THEN [r EXCEPT !.analysed = s.uploads[name].task,
                        !.decodable = s.uploads[name].decodable,
                        !.anomaly = s.uploads[name].anomaly,
                        !.found = TRUE]
         ELSE [r EXCEPT !.found = FALSE]
    ELSE r

----------------------------------------------------------------------------
(* The local pipeline and the conversion of a remote response *)

\* AnomalyDetectionService.detect_anomaly: never raises; an image it cannot
\* load yields the dict {'error', 'has_anomaly': False, 'anomaly_class':
\* 'error', 'confidence': 0.0}; a result has a 'visualization' when
\* return_visualization and has_anomaly (lines 254-262)
LocalDetect(r) ==
    LET ok == r.found /\ r.decodable IN
    [r EXCEPT !.localRuns = @ + 1, !.producer = "local",
              !.kind = IF ok THEN "diag" ELSE "errdict",
              !.hasVis = ok /\ r.anomaly /\ r.visualization]

\* DicomDiagnosticServicer.DiagnoseDicom: preprocess reads the payload with
\* pydicom.dcmread, and DiagnosticPipeline.predict, which runs under
\* torch.no_grad(), calls class_score.backward() in generate_gradcam when
\* options.include_gradcam is set (the client sets it to
\* return_visualization); any exception becomes a response with status ERROR
ServerCompletes(r) == r.isDicom /\ r.decodable /\ ~r.visualization

\* GrpcAnomalyClient._convert_grpc_response_to_dict: a response whose status
\* is not COMPLETED becomes {'has_anomaly': False, 'error', 'status'}
ConvertResponse(r) ==
    IF ServerCompletes(r)
    THEN [r EXCEPT !.remoteCompleted = TRUE, !.producer = "remote",
                   !.kind = "diag", !.det = "remote", !.hasVis = FALSE]
    ELSE [r EXCEPT !.producer = "remote", !.kind = "errnoclass",
                   !.det = "remote_error", !.hasVis = FALSE]

\* the local fallback of GrpcAnomalyClient.detect_anomaly
\* (`return service.detect_anomaly(...)`)
ClientFallback(r) == [LocalDetect(r) EXCEPT !.det = "local"]

\* detect_anomaly's `except grpc.RpcError` handler (lines 313-323)
OnRpcError(r) == Ret(ClientFallback(r))

\* detect_anomaly's `except Exception: raise` handler (lines 324-326)
OnOtherError(r) == Ret([r EXCEPT !.det = "raised"])

\* faulty variant of RouterBackend: the local service is run whatever the gRPC attempt
\* returned
RouterBackendAlwaysLocal(r) == [LocalDetect(r) EXCEPT !.tag = "local"]

\* the router's decision after the gRPC attempt (lines 134-145):
\* `if not grpc_used or result is None` runs the local service and tags the
\* result 'local', otherwise the result is tagged 'grpc'
RouterBackend(r) ==
    IF r.det \in {"none", "raised"}
    THEN [LocalDetect(r) EXCEPT !.tag = "local"]
    ELSE [r EXCEPT !.tag = "grpc"]

\* the rest of the endpoint (lines 147-168): image_id is set, the result
\* file is written, and result['anomaly_class'] is read for the log line; a
\* dict without that key raises KeyError there, after the file was written,
\* which the endpoint turns into HTTPException(500)
RouterFinish(s, t, r) ==
    SetTk([s EXCEPT !.results = WriteFile(@, ResultName(r.timestamp),
                                          [task |-> t,
                                           image_id |-> ImageId(r),
                                           visualization |-> r.hasVis])], t,
          [r EXCEPT !.pc = "done", !.image_id = ImageId(r),
                    !.out = IF r.kind = "errnoclass" THEN "raised"
                            ELSE "returned"])

----------------------------------------------------------------------------
(* One step of a running task between two awaits *)

\* faulty variant of AcquireLock: connect enters without waiting for the lock
AcquireLockNoWait(s, t) ==
    SetTk([s EXCEPT !.lock = t], t, [s.tk[t] EXCEPT !.pc = "c_check"])

\* `async with self._connection_lock` (connect, line 72): asyncio.Lock is
\* fair.  The task takes the lock when it is free and no task is waiting for
\* it; otherwise it joins the queue, also behind a waiter that was woken up
\* and has not run yet
AcquireLock(s, t) ==
    IF s.lock = 0 /\ s.waiters = <<>>
    THEN SetTk([s EXCEPT !.lock = t], t, [s.tk[t] EXCEPT !.pc = "c_check"])
    ELSE SetTk([s EXCEPT !.waiters = Append(@, t)], t,
               [s.tk[t] EXCEPT !.pc = "c_wait"])

Micro(s, t) ==
    LET r == s.tk[t] IN
    CASE
    (* ---- GrpcAnomalyClient.connect(retry) ---- *)
         r.pc = "c_start" ->
            IF ~s.grpcAvailable
            THEN SetTk([s EXCEPT !.connected = FALSE], t,
                       Ret([r EXCEPT !.cAttempts = 0, !.cProbed = FALSE]))
            ELSE SetTk(s, t, [r EXCEPT !.pc = "c_lock", !.cAttempts = 0,
                                       !.cProbed = FALSE])
      [] r.pc = "c_lock" -> AcquireLock(s, t)
    (* lines 73-85: self.channel.get_state() of grpc.aio returns the        *)
    (* connectivity state, which is not awaitable, so asyncio.wait_for      *)
    (* raises TypeError without suspending; the bare except of line 81      *)
    (* gives the connection up and closes the channel                       *)
      [] r.pc = "c_check" ->
            IF s.connected /\ s.channel # "None"
            THEN SetTk(CloseChannel([s EXCEPT !.connected = FALSE]), t,
                       [r EXCEPT !.pc = "c_closed"])
            ELSE SetTk(s, t, [r EXCEPT !.pc = "c_loop", !.cRetries = 0])
      [] r.pc = "c_loop" ->
            IF r.cRetries < (IF r.retry THEN max_retries ELSE 1)
            THEN LET s1 == NewChannel(s) IN
                 SetTk(s1, t, [s1.tk[t] EXCEPT !.pc = "c_probe", !.rpc = "cur",
                                               !.rpcCut = FALSE,
                                               !.cAttempts = @ + 1])
            ELSE SetTk([s EXCEPT !.connected = FALSE], t,
                       [r EXCEPT !.pc = "c_unlock"])
      [] r.pc = "c_unlock" ->
            SetTk([s EXCEPT !.lock = 0], t, Ret(r))
    (* ---- GrpcAnomalyClient.health_check() ---- *)
      [] r.pc = "h_start" ->
            IF ~s.grpcAvailable
            THEN SetTk(s, t, Ret([r EXCEPT !.healthy = FALSE]))
            ELSE IF ~s.connected
            THEN SetTk(s, t, Call([r EXCEPT !.retry = TRUE], "c_start", "h_stub"))
            ELSE SetTk(s, t, [r EXCEPT !.pc = "h_stub"])
      [] r.pc = "h_stub" ->
            IF s.stub = "None"
            THEN SetTk(s, t, Ret([r EXCEPT !.healthy = FALSE]))
            ELSE IF s.stub = "closed"
            THEN SetTk([s EXCEPT !.degraded = TRUE], t,
                       Ret([r EXCEPT !.healthy = FALSE]))
            ELSE SetTk(s, t, [r EXCEPT !.pc = "h_rpc", !.rpc = "cur",
                                       !.rpcCut = FALSE])
    (* ---- GrpcAnomalyClient.detect_anomaly() ---- *)
      [] r.pc = "d_start" ->
            IF ~s.grpcAvailable
            THEN SetTk(s, t, Ret(ClientFallback(ReadImage(s, r))))
            ELSE IF ~s.connected
            THEN SetTk(s, t, Call([r EXCEPT !.retry = TRUE], "c_start", "d_stub"))
            ELSE SetTk(s, t, [r EXCEPT !.pc = "d_stub"])
      [] r.pc = "d_stub" ->
            LET r1 == ReadImage(s, r) IN
            IF s.stub = "None"
            THEN SetTk(s, t, Ret(ClientFallback(r1)))
            ELSE IF ~r1.found \/ (~r1.isDicom /\ ~r1.decodable)
            THEN SetTk(s, t, OnOtherError(r1))
            ELSE SetTk(s, t, [r1 EXCEPT !.pc = "d_loop", !.dRetries = 0])
      [] r.pc = "d_loop" ->
            IF s.stub = "closed"
            THEN SetTk(s, t, OnOtherError(r))
            ELSE SetTk(s, t, [r EXCEPT !.pc = "d_rpc", !.rpc = "cur",
                                       !.rpcCut = FALSE, !.attempts = @ + 1])
      [] r.pc = "d_reconnected" ->
            IF r.dRetries + 1 < max_retries
            THEN SetTk(s, t, [r EXCEPT !.dRetries = @ + 1, !.pc = "d_sleep"])
            ELSE SetTk(s, t, OnRpcError(ReadImage(s, [r EXCEPT !.dRetries = @ + 1])))
    (* ---- anomaly_router.detect_anomaly (POST /anomaly/detect) ---- *)
      [] r.pc = "e_save" -> SaveUpload(s, t)
      [] r.pc = "e_start" ->
            IF ~s.instance
            THEN SetTk([s EXCEPT !.instance = TRUE], t,
                       Call([r EXCEPT !.retry = TRUE], "c_start", "e_health"))
            ELSE SetTk(s, t, [r EXCEPT !.pc = "e_health"])
      [] r.pc = "e_health" ->
            SetTk(s, t, Call(r, "h_start", "e_checked"))
      [] r.pc = "e_checked" ->
            IF r.healthy
            THEN SetTk(s, t, Call(r, "d_start", "e_final"))
            ELSE SetTk(s, t, [r EXCEPT !.pc = "e_final"])
      [] r.pc = "e_final" ->
            RouterFinish(s, t, RouterBackend(IF r.det \in {"none", "raised"}
                                             THEN ReadImage(s, r) ELSE r))
    (* ---- get_grpc_status (GET /anomaly/grpc/status) and ---- *)
    (* ---- get_model_info (GET /anomaly/model/info)       ---- *)
      [] r.pc = "g_start" ->
            IF ~s.instance
            THEN SetTk([s EXCEPT !.instance = TRUE], t,
                       Call([r EXCEPT !.retry = TRUE], "c_start", "g_health"))
            ELSE SetTk(s, t, [r EXCEPT !.pc = "g_health"])
      [] r.pc = "g_health" ->
            SetTk(s, t, Call(r, "h_start", "top_return"))
    (* ---- direct calls of the client's methods ---- *)
      [] r.pc = "top_detect" ->
            SetTk(s, t, [r EXCEPT !.pc = "done",
                                  !.out = IF r.det = "raised" THEN "raised"
                                          ELSE "returned"])
      [] r.pc = "top_return" ->
            SetTk(s, t, [r EXCEPT !.pc = "done", !.out = "returned"])
    (* ---- GrpcAnomalyClient.disconnect() ---- *)
      [] r.pc = "x_start" ->
            IF s.channel # "None"
            THEN SetTk(CloseChannel(s), t, [r EXCEPT !.pc = "x_close"])
            ELSE SetTk(s, t, [r EXCEPT !.pc = "done", !.out = "returned"])

\* the task runs on from the state s0 up to its next await (s is bound to
\* the value of s0, which is then computed once)
RECURSIVE Run(_, _)
Run(s0, t) ==
    CHOOSE out \in {IF s.tk[t].pc \in AwaitLabels THEN s ELSE Run(Micro(s, t), t) :
                       s \in {s0}} : TRUE

----------------------------------------------------------------------------
(* Actions of the client specification *)

\* the state at the end of a step becomes the state of the program
Apply(s0) ==
    \E s \in {s0} :
       /\ grpcAvailable' = s.grpcAvailable
       /\ instance' = s.instance
       /\ connected' = s.connected
       /\ channel' = s.channel
       /\ stub' = s.stub
       /\ lock' = s.lock
       /\ waiters' = s.waiters
       /\ tk' = s.tk
       /\ degraded' = s.degraded
       /\ onlyUnavail' = s.onlyUnavail
       /\ calls' = s.calls
       /\ now' = s.now
       /\ uploads' = s.uploads
       /\ results' = s.results
       /\ UNCHANGED <<streamVars, batchVars, evalVars>>

Idle(t) == tk[t].pc \in {"idle", "done"} /\ calls < MaxCalls

\* Lock.release() has woken the first waiter up and the waiter has not run
\* yet: the lock is free and the queue is not empty
WakePending == lock = 0 /\ waiters # <<>>

\* the event loop runs its callbacks in the order they were queued.  With
\* a wake-up pending, the awaits the other task is suspended on were set up
\* in the step that released the lock or later (AllTasks has two tasks),
\* so what resumes it comes behind the wake-up; a request that arrives or a
\* cancellation of the woken waiter may have been queued before it
Turn(t) == ~WakePending

\* a task starts an operation: its record is reset, its inputs are set
Begin(t, op, pc0, stack0, img, vis, retry) ==
    Run([State EXCEPT !.calls = @ + 1,
                      !.tk = [@ EXCEPT ![t] =
                                [Fresh EXCEPT !.op = op, !.pc = pc0,
                                              !.stack = stack0,
                                              !.ext = img.ext,
                                              !.isDicom = IsDicomFile(img.ext),
                                              !.decodable = img.decodable,
                                              !.anomaly = img.anomaly,
                                              !.visualization = vis,
                                              !.retry = retry,
                                              !.startedDegraded = degraded]]],
        t)

\* the inputs of an operation that is given no image
NoImage == [ext |-> "none", decodable |-> TRUE, anomaly |-> FALSE]

\* POST /anomaly/detect with an uploaded file, one of imgs, and
\* return_visualization, one of opts; datetime.now() of line 97 is read
\* first
EndpointOn(t, imgs, opts) ==
    /\ Idle(t)
    /\ \E img \in imgs, vis \in opts, c \in Readings(now) :
         Apply(Run([Begin(t, "endpoint", "idle", <<>>, img, vis, TRUE)
                       EXCEPT !.now = c, !.tk[t].pc = "e_save"], t))

\* the images of the sequential specification: a DICOM file, readable or
\* not, in which the local model finds no anomaly, or another image
SeqImages ==
    {i \in Images : i.ext \in {".dicom", ".DCM", ".jpg"}
                      /\ (i.anomaly => i.ext = ".jpg")}

\* a request of the sequential specification; its requests arrive at one
\* reading of the clock
StartEndpoint(t) == EndpointOn(t, SeqImages, BOOLEAN) /\ now' = now

\* GET /anomaly/grpc/status: the shared client is created and connected if
\* there is none, and its health_check is awaited
StartStatus(t) ==
    /\ Idle(t)
    /\ Apply(Begin(t, "status", "g_start", <<>>, NoImage, TRUE, TRUE))

\* GET /anomaly/model/info: the same two calls on the shared client; the
\* answer is built from the health flag
StartModelInfo(t) ==
    /\ Idle(t)
    /\ Apply(Begin(t, "model_info", "g_start", <<>>, NoImage, TRUE, TRUE))

\* client = await get_grpc_anomaly_client() was done before;
\* await client.detect_anomaly(image_path, return_visualization)
DetectOn(t, imgs, opts) ==
    /\ Idle(t)
    /\ instance
    /\ \E img \in imgs, vis \in opts :
         Apply(Begin(t, "detect", "d_start", <<"top_detect">>, img, vis, TRUE))

StartDetect(t) == DetectOn(t, SeqImages, BOOLEAN)

\* await client.health_check()
StartHealth(t) ==
    /\ Idle(t)
    /\ instance
    /\ Apply(Begin(t, "health", "h_start", <<"top_return">>, NoImage, TRUE, TRUE))

\* await client.connect(retry)
StartConnect(t) ==
    /\ Idle(t)
    /\ instance
    /\ \E retry \in BOOLEAN :
         Apply(Begin(t, "connect", "c_start", <<"top_return">>, NoImage, TRUE, retry))

\* await client.disconnect()
StartDisconnect(t) ==
    /\ Idle(t)
    /\ instance
    /\ Apply(Begin(t, "disconnect", "x_start", <<>>, NoImage, TRUE, TRUE))

\* bound on the number of files of one /anomaly/detect-batch request
MaxBatchFiles == 2

\* detect_anomaly_batch, the loop of lines 181-200 from the k-th file on:
\* the file is saved under the microsecond of the clock reading stamps[k]
\* and the local service is run on it
RECURSIVE BatchLoop(_, _, _, _, _)
BatchLoop(s, t, files, stamps, k) ==
    IF k > Len(files)
    THEN s
    ELSE BatchLoop([s EXCEPT !.now = stamps[k],
                             !.uploads = WriteFile(@, UploadName(Micros(stamps[k]),
                                                                 files[k].ext),
                                                   [task |-> t,
                                                    decodable |-> files[k].decodable,
                                                    anomaly |-> files[k].anomaly]),
                             !.tk[t].localRuns = @ + 1],
                   t, files, stamps, k + 1)

\* POST /anomaly/detect-batch (lines 171-216) with files out of imgs: no
\* await; the results are returned, no result file is written
BatchOn(t, imgs) ==
    /\ Idle(t)
    /\ \E n \in 1..MaxBatchFiles :
         \E files \in [1..n -> imgs], stamps \in [1..n -> Clock] :
            /\ stamps[1] \in Readings(now)
            /\ \A k \in 1..(n - 1) : stamps[k + 1] \in Readings(stamps[k])
            /\ LET s == BatchLoop(Begin(t, "batch", "idle", <<>>, NoImage, FALSE, TRUE),
                                  t, files, stamps, 1)
               IN Apply(SetTk(s, t, [s.tk[t] EXCEPT !.pc = "done",
                                                    !.out = "returned",
                                                    !.producer = "local",
                                                    !.kind = "batch"]))

\* a batch of the sequential specification: readable .dcm files, at one
\* reading of the clock
StartBatch(t) == BatchOn(t, {PlainDcm}) /\ now' = now

\* an image_id no file was made for
UnknownId == <<<<>>, "none">>

\* the image_id a request may ask for: one of a result, one an upload was
\* saved under, or one that names nothing
ImageIds ==
    {results[n].image_id : n \in DOMAIN results}
        \cup {<<n[2], n[3]>> : n \in DOMAIN uploads} \cup {UnknownId}

\* for f in RESULTS_DIR.glob("result_*.json"): data.get('image_id') ==
\* image_id  (lines 241-247, 295-298, 397-402)
ResultsOf(s, id) ==
    {n \in DOMAIN s.results : n[1] = "result_" /\ s.results[n].image_id = id}

\* the end of a handler without await: the response or the HTTPException
Respond(s, t, out) ==
    SetTk(s, t, [s.tk[t] EXCEPT !.pc = "done", !.out = out])

\* generate_medical_report (lines 218-284): 404 without a result for
\* image_id; otherwise the report is written under the current second
Report(s, t, id, c) ==
    IF ResultsOf(s, id) = {}
    THEN Respond(s, t, "raised")
    ELSE Respond([s EXCEPT !.now = c,
                           !.results = WriteFile(@, ReportName(Seconds(c)),
                                                 [task |-> t, image_id |-> id,
                                                  visualization |-> FALSE])],
                 t, "returned")

\* POST /anomaly/generate-report
StartReport(t) ==
    /\ Idle(t)
    /\ \E id \in ImageIds, c \in Readings(now) :
         Apply(Report([Begin(t, "report", "idle", <<>>, NoImage, TRUE, TRUE)
                          EXCEPT !.tk[t].image_id = id], t, id, c))

\* get_visualization (lines 287-325): 404 without a result for image_id or
\* when the result has no 'visualization'; otherwise the image is written
\* to RESULTS_DIR
Visualization(s, t, id) ==
    IF \E n \in ResultsOf(s, id) : s.results[n].visualization
    THEN Respond([s EXCEPT !.results = WriteFile(@, VisName(id),
                                                 [task |-> t, image_id |-> id,
                                                  visualization |-> TRUE])],
                 t, "returned")
    ELSE Respond(s, t, "raised")

\* GET /anomaly/visualization/{image_id}
StartVisualization(t) ==
    /\ Idle(t)
    /\ \E id \in ImageIds :
         Apply(Visualization([Begin(t, "visualization", "idle", <<>>, NoImage,
                                    TRUE, TRUE)
                                 EXCEPT !.tk[t].image_id = id], t, id))

\* delete_detection_result (lines 387-424): the result file of image_id,
\* the upload upload_<image_id> and the file vis_<image_id>.png are removed;
\* 404 when neither a result nor an upload was there
Delete(s, t, id) ==
    LET res == ResultsOf(s, id)
        up == UploadOf(id) \in DOMAIN s.uploads
        s1 == [s EXCEPT !.results = [n \in (DOMAIN @ \ res) \ {VisName(id)} |-> @[n]],
                        !.uploads = RemoveFile(@, UploadOf(id))]
    IN Respond(s1, t, IF res # {} \/ up THEN "returned" ELSE "raised")

\* DELETE /anomaly/results/{image_id}
StartDelete(t) ==
    /\ Idle(t)
    /\ \E id \in ImageIds :
         Apply(Delete([Begin(t, "delete", "idle", <<>>, NoImage, TRUE, TRUE)
                          EXCEPT !.tk[t].image_id = id], t, id))

\* the wake-up of the first waiter runs: Lock.acquire() sets _locked and
\* connect goes on under the lock (line 72)
LockGranted(t) ==
    /\ WakePending
    /\ t = Head(waiters)
    /\ Apply(Run(SetTk([State EXCEPT !.lock = t, !.waiters = Tail(@)], t,
                       [tk[t] EXCEPT !.pc = "c_check"]), t))

\* faulty variant of AfterClose: self.channel is not reset after the close
AfterCloseKeepsChannel(s, t) ==
    LET r == s.tk[t] IN
    CASE r.pc = "c_closed" ->
            SetTk(s, t, [r EXCEPT !.pc = "c_loop", !.cRetries = 0])
      [] r.pc \in {"c_tclose", "c_eclose"} ->
            SetTk(s, t, [r EXCEPT !.cRetries = @ + 1,
                                  !.pc = IF r.cRetries + 1 < max_retries
                                         THEN "c_sleep" ELSE "c_loop"])
      [] r.pc = "x_close" ->
            SetTk([s EXCEPT !.connected = FALSE], t,
                  [r EXCEPT !.pc = "done", !.out = "returned"])

\* what follows an `await self.channel.close()`
AfterClose(s, t) ==
    LET r == s.tk[t] IN
    CASE r.pc = "c_closed" ->
            SetTk(s, t, [r EXCEPT !.pc = "c_loop", !.cRetries = 0])
      [] r.pc = "c_tclose" ->
            SetTk([s EXCEPT !.channel = "None"], t,
                  [r EXCEPT !.cRetries = @ + 1, !.pc = "c_sleep"])
      [] r.pc = "c_eclose" ->
            SetTk([s EXCEPT !.channel = "None"], t,
                  [r EXCEPT !.cRetries = @ + 1,
                            !.pc = IF r.cRetries + 1 < max_retries
                                   THEN "c_sleep" ELSE "c_loop"])
      [] r.pc = "x_close" ->
            SetTk([s EXCEPT !.connected = FALSE], t,
                  [r EXCEPT !.pc = "done", !.out = "returned"])

CloseDone(t) ==
    /\ Turn(t)
    /\ tk[t].pc \in {"c_closed", "c_tclose", "c_eclose", "x_close"}
    /\ Apply(Run(AfterClose(State, t), t))

\* an asyncio.sleep of connect or of detect_anomaly's retry loop ends
SleepDone(t) ==
    /\ Turn(t)
    /\ tk[t].pc \in {"c_sleep", "d_sleep"}
    /\ Apply(Run(SetTk(State, t,
                       [tk[t] EXCEPT !.pc = IF tk[t].pc = "c_sleep"
                                            THEN "c_loop" ELSE "d_loop"]), t))

\* the outcome of an RPC is recorded in the history
Outcome(s, o) == [s EXCEPT !.onlyUnavail = @ /\ (o = "unavailable")]

\* connect, lines 107-136: the HealthCheck probe of a connection attempt
AfterProbe(s, t, o) ==
    LET r == [s.tk[t] EXCEPT !.rpc = "none", !.rpcCut = FALSE] IN
    CASE o = "ok" ->
            SetTk(Reconnected([s EXCEPT !.connected = TRUE]), t,
                  [r EXCEPT !.pc = "c_unlock", !.startedDegraded = FALSE,
                            !.cProbed = TRUE])
      [] o = "timeout" ->
            SetTk(CloseChannel(s), t, [r EXCEPT !.pc = "c_tclose"])
      [] o = "unavailable" ->
            IF s.channel # "None"
            THEN SetTk(CloseChannel(s), t, [r EXCEPT !.pc = "c_eclose"])
            ELSE AfterClose(SetTk(s, t, [r EXCEPT !.pc = "c_eclose"]), t)

ProbeDone(t) ==
    /\ Turn(t)
    /\ tk[t].pc = "c_probe"
    /\ IF tk[t].rpcCut
       THEN Apply(Cancelled(State, t))
       ELSE \E o \in {"ok", "timeout", "unavailable"} :
              Apply(Run(AfterProbe(Outcome(State, o), t, o), t))

\* health_check, lines 165-186
AfterHealth(s, t, o) ==
    LET r == [s.tk[t] EXCEPT !.rpc = "none", !.rpcCut = FALSE] IN
    IF o = "ok"
    THEN SetTk(s, t, Ret([r EXCEPT !.healthy = TRUE]))
    ELSE SetTk([s EXCEPT !.degraded = TRUE], t, Ret([r EXCEPT !.healthy = FALSE]))

HealthDone(t) ==
    /\ Turn(t)
    /\ tk[t].pc = "h_rpc"
    /\ IF tk[t].rpcCut
       THEN Apply(Cancelled(State, t))
       ELSE \E o \in {"ok", "unavailable"} :
              Apply(Run(AfterHealth(Outcome(State, o), t, o), t))

\* detect_anomaly, lines 277-311: one DiagnoseDicom attempt ends
AfterDiagnose(s, t, o) ==
    LET r == [s.tk[t] EXCEPT !.rpc = "none", !.rpcCut = FALSE] IN
    CASE o = "ok" ->
            SetTk(s, t, Ret(ConvertResponse(r)))
      [] o = "unavailable" ->
            SetTk([s EXCEPT !.degraded = TRUE], t,
                  Call([r EXCEPT !.retry = FALSE], "c_start", "d_reconnected"))
      [] o = "invalid" ->
            SetTk(s, t, OnRpcError(ReadImage(s, [r EXCEPT !.invalid = TRUE])))
      [] o = "timeout" ->
            IF r.dRetries + 1 < max_retries
            THEN SetTk(s, t, [r EXCEPT !.dRetries = @ + 1, !.pc = "d_sleep"])
            ELSE SetTk(s, t, OnOtherError([r EXCEPT !.dRetries = @ + 1]))

DiagnoseDone(t) ==
    /\ Turn(t)
    /\ tk[t].pc = "d_rpc"
    /\ IF tk[t].rpcCut
       THEN Apply(Cancelled(State, t))
       ELSE \E o \in {"ok", "unavailable", "invalid", "timeout"} :
              Apply(Run(AfterDiagnose(Outcome(State, o), t, o), t))

\* task.cancel() while the task is suspended: asyncio.CancelledError is
\* raised at the await.  It is a BaseException: the `except Exception`,
\* `except grpc.RpcError` and `except asyncio.TimeoutError` clauses let it
\* through and `async with` releases the lock; the bare `except:` around
\* the close of connect's error handler (lines 128-131) catches it and the
\* coroutine goes on.  (The bare except of line 81 guards no suspension.)
OnCancel(s, t) ==
    LET r == s.tk[t] IN
    CASE r.pc = "c_eclose" -> AfterClose(s, t)
      [] OTHER -> Cancelled(s, t)

Cancel(t) ==
    /\ WakePending => t = Head(waiters)
    /\ tk[t].pc \in AwaitLabels \ {"idle", "done"}
    /\ Apply(Run(OnCancel(State, t), t))

ClientInit ==
    /\ grpcAvailable \in BOOLEAN
    /\ instance = FALSE
    /\ connected = FALSE
    /\ channel = "None"
    /\ stub = "None"
    /\ lock = 0
    /\ waiters = <<>>
    /\ tk = [t \in AllTasks |-> Fresh]
    /\ degraded = FALSE
    /\ onlyUnavail = TRUE
    /\ calls = 0

----------------------------------------------------------------------------
(* DiagnoseDicomStream: the chunking client and the server generator *)

\* bounds of the streamed payloads
MaxLen == 4
MaxChunk == 3

Byte == {"a", "b"}

Payloads == UNION {[1..n -> Byte] : n \in 0..MaxLen}

Min(a, b) == IF a < b THEN a ELSE b

\* diagnose_dicom_stream: num_chunks = (total_size + chunk_size - 1) // chunk_size
NumChunks(total, cs) == (total + cs - 1) \div cs

\* request_generator: chunk i (from 0) is dicom_data[start:end] with
\* start = i * chunk_size, end = min(start + chunk_size, total_size)
ChunkOf(p, cs, i) == SubSeq(p, i * cs + 1, Min(i * cs + cs, Len(p)))

\* request_generator: the metadata message, then the chunk messages in order
ClientRequests(p, cs, rid) ==
    <<[request_id |-> rid, field |-> "metadata", chunk |-> <<>>]>>
    \o [i \in 1..NumChunks(Len(p), cs) |->
          [request_id |-> rid, field |-> "chunk", chunk |-> ChunkOf(p, cs, i - 1)]]

\* faulty variant of Join: the chunks are put together last-received first
RECURSIVE JoinReversed(_)
JoinReversed(chs) ==
    IF chs = <<>> THEN <<>> ELSE JoinReversed(Tail(chs)) \o Head(chs)

\* b''.join(chunks)
RECURSIVE Join(_)
Join(chs) == IF chs = <<>> THEN <<>> ELSE Head(chs) \o Join(Tail(chs))

\* progress values are kept exactly, in units of 1 / (50 * 1024 * 1024)
UploadAssumed == 50 * 1024 * 1024

\* the progress n / 10 in those units
Tenths(n) == (n * UploadAssumed) \div 10

\* progress = min(total_bytes / (50 * 1024 * 1024), 0.3)
UploadProgress(total) == Min(total, Tenths(3))

Response(rid, status, progress) ==
    [request_id |-> rid, status |-> status, progress |-> progress]

\* faulty variant of StreamError: the handler only logs, as DiagnoseBatch's does
StreamErrorSilent(out, rid) == out

\* the `except Exception` handler of DiagnoseDicomStream (lines 286-294):
\* one ERROR response ends the stream; `request_id or "unknown"` gives
\* "unknown" for None and for the empty string
StreamError(out, rid) ==
    Append(out, Response(IF rid \in {"None", ""} THEN "unknown" ELSE rid,
                         "ERROR", 0))

\* the request_id a client may give its request: a name, or the empty string
RequestIds == {"r1", ""}

\* a request stream as DiagnoseDicomStream may receive it (lines 198-227
\* take the messages in any order): the messages of the client, with the
\* metadata message in position k
MetadataAt(reqs, k) ==
    SubSeq(Tail(reqs), 1, k - 1) \o <<Head(reqs)>>
        \o SubSeq(Tail(reqs), k, Len(reqs) - 1)

StreamInit ==
    /\ sPayload \in Payloads
    /\ sChunkSize \in 1..MaxChunk
    /\ \E k \in 1..(NumChunks(Len(sPayload), sChunkSize) + 1), rid \in RequestIds :
          sReqs = MetadataAt(ClientRequests(sPayload, sChunkSize, rid), k)
    /\ sPos = 0
    /\ sPc = "recv"
    /\ sRequestId = "None"
    /\ sMetadata = FALSE
    /\ sChunks = <<>>
    /\ sTotal = 0
    /\ sData = <<>>
    /\ sOut = <<>>

\* the stream variables while the stream handler is not the subject
StreamIdle ==
    /\ sPayload = <<>>
    /\ sChunkSize = 1
    /\ sReqs = <<>>
    /\ sPos = 0
    /\ sPc = "recv"
    /\ sRequestId = "None"
    /\ sMetadata = FALSE
    /\ sChunks = <<>>
    /\ sTotal = 0
    /\ sData = <<>>
    /\ sOut = <<>>

\* lines 198-227: one more request arrives from request_iterator
StreamRecv ==
    /\ sPc = "recv"
    /\ sPos < Len(sReqs)
    /\ LET req == sReqs[sPos + 1]
           rid == IF sRequestId = "None" THEN req.request_id ELSE sRequestId
       IN /\ sPos' = sPos + 1
          /\ sRequestId' = rid
          /\ IF req.field = "metadata"
             THEN /\ sMetadata' = TRUE
                  /\ sOut' = Append(sOut, Response(rid, "PROCESSING", 0))
                  /\ UNCHANGED <<sChunks, sTotal>>
             ELSE /\ sChunks' = Append(sChunks, req.chunk)
                  /\ sTotal' = sTotal + Len(req.chunk)
                  /\ sOut' = Append(sOut, Response(rid, "PROCESSING",
                                                   UploadProgress(sTotal + Len(req.chunk))))
                  /\ UNCHANGED sMetadata
    /\ UNCHANGED <<sPayload, sChunkSize, sReqs, sPc, sData, clientVars, batchVars, auxVars>>

\* the upload breaks: `async for request in request_iterator` (line 198)
\* raises.  An Exception is caught by the `except Exception` of line 286 and
\* answered with ERROR; asyncio.CancelledError (the call was cancelled, the
\* client went away) is a BaseException, the handler does not catch it and
\* the generator ends without another message
StreamRecvFails ==
    /\ sPc = "recv"
    /\ \E caught \in BOOLEAN :
         IF caught
         THEN /\ sOut' = StreamError(sOut, sRequestId)
              /\ sPc' = "done"
         ELSE /\ sOut' = sOut
              /\ sPc' = "cancelled"
    /\ UNCHANGED <<sPayload, sChunkSize, sReqs, sPos, sRequestId, sMetadata,
                   sChunks, sTotal, sData, clientVars, batchVars, auxVars>>

\* the call is cancelled while the generator is suspended at one of the
\* yields of lines 233-264: what is thrown into it there (GeneratorExit,
\* asyncio.CancelledError) is no Exception either, and nothing more is sent
StreamCancelled ==
    /\ sPc \in {"preprocess", "predict", "build"}
    /\ sPc' = "cancelled"
    /\ UNCHANGED <<sPayload, sChunkSize, sReqs, sPos, sRequestId, sMetadata,
                   sChunks, sTotal, sData, sOut, clientVars, batchVars, auxVars>>

\* lines 229-239: the request stream is exhausted, the payload is
\* reassembled and "Preprocessing DICOM..." (0.4) is sent
StreamUploaded ==
    /\ sPc = "recv"
    /\ sPos = Len(sReqs)
    /\ sData' = Join(sChunks)
    /\ sOut' = Append(sOut, Response(sRequestId, "PROCESSING", Tenths(4)))
    /\ sPc' = "preprocess"
    /\ UNCHANGED <<sPayload, sChunkSize, sReqs, sPos, sRequestId, sMetadata,
                   sChunks, sTotal, clientVars, batchVars, auxVars>>

\* a stage of lines 241-284 runs (no await in it): it succeeds and the next
\* message is sent, or it raises an Exception and the except handler sends
\* ERROR
StreamStage(stage, next, progress, status) ==
    /\ sPc = stage
    /\ \E ok \in BOOLEAN :
         IF ok
         THEN /\ sOut' = Append(sOut, Response(sRequestId, status, progress))
              /\ sPc' = next
         ELSE /\ sOut' = StreamError(sOut, sRequestId)
              /\ sPc' = "done"
    /\ UNCHANGED <<sPayload, sChunkSize, sReqs, sPos, sRequestId, sMetadata,
                   sChunks, sTotal, sData, clientVars, batchVars, auxVars>>

\* self.dicom_processor.preprocess(dicom_data), then "Running AI inference..."
StreamPreprocess == StreamStage("preprocess", "predict", Tenths(6), "PROCESSING")

\* self.diagnostic_pipeline.predict(tensor), then "Postprocessing results..."
StreamPredict == StreamStage("predict", "build", Tenths(9), "PROCESSING")

\* self._build_diagnostic_response(...), progress = 1.0, status = COMPLETED
StreamBuild == StreamStage("build", "done", Tenths(10), "COMPLETED")

----------------------------------------------------------------------------
(* DiagnoseBatch *)

\* bounds of the batch streams
MaxReqs == 4
MaxBatch == 2

\* a request of the stream: its request_id, whether preprocess can read its
\* payload, whether inference on its tensor succeeds
BatchRequest(i, dec, inf) == [request_id |-> i, decodable |-> dec, inferOk |-> inf]

BatchStreams ==
    UNION { { [i \in 1..n |-> BatchRequest(i, d[i], f[i])] :
                d \in [1..n -> BOOLEAN], f \in [1..n -> BOOLEAN] } : n \in 0..MaxReqs }

BatchInit ==
    /\ bReqs \in BatchStreams
    /\ bBatchSize \in 1..MaxBatch
    /\ bPos = 0
    /\ bPc = "recv"
    /\ bRequests = <<>>
    /\ bTensors = <<>>
    /\ bNext = 1
    /\ bOut = <<>>

\* the batch variables while the batch handler is not the subject
BatchIdle ==
    /\ bReqs = <<>>
    /\ bBatchSize = 1
    /\ bPos = 0
    /\ bPc = "recv"
    /\ bRequests = <<>>
    /\ bTensors = <<>>
    /\ bNext = 1
    /\ bOut = <<>>

\* faulty variant of BatchFull: the batch is processed only once it has
\* grown past batch_size
BatchFullAbove(n) == n > bBatchSize

\* line 321: len(batch_tensors) >= self.batch_size
BatchFull(n) == n >= bBatchSize

\* lines 307-321: a request arrives and is preprocessed; when preprocess
\* raises the `except Exception` of lines 366-367 logs and the generator ends
BatchRecv ==
    /\ bPc = "recv"
    /\ bPos < Len(bReqs)
    /\ LET req == bReqs[bPos + 1] IN
       /\ bPos' = bPos + 1
       /\ IF ~req.decodable
          THEN /\ bPc' = "done"
               /\ UNCHANGED <<bRequests, bTensors, bNext>>
          ELSE /\ bTensors' = Append(bTensors, req.request_id)
               /\ bRequests' = Append(bRequests, req)
               /\ bNext' = 1
               /\ bPc' = IF BatchFull(Len(bTensors) + 1) THEN "full" ELSE "recv"
    /\ UNCHANGED <<bReqs, bBatchSize, bOut, clientVars, streamVars, auxVars>>

\* lines 326-339 and 349-362: the next request of the batch is inferred and
\* its response is yielded; the buffers stay as they are.  When predict
\* raises the generator ends; after the last response of the remaining
\* requests it ends too
BatchAnswer ==
    /\ bPc \in {"full", "rest"}
    /\ bNext <= Len(bRequests)
    /\ LET req == bRequests[bNext] IN
       IF ~req.inferOk
       THEN /\ bPc' = "done"
            /\ UNCHANGED <<bNext, bOut>>
       ELSE /\ bOut' = Append(bOut, [request_id |-> req.request_id,
                                     status |-> "COMPLETED"])
            /\ bNext' = bNext + 1
            /\ bPc' = IF bPc = "rest" /\ bNext = Len(bRequests)
                      THEN "done" ELSE bPc
    /\ UNCHANGED <<bReqs, bBatchSize, bPos, bRequests, bTensors,
                   clientVars, streamVars, auxVars>>

\* lines 341-343: the generator is resumed after the last response of a full
\* batch, the loop over the batch is over and the buffers are emptied
BatchReset ==
    /\ bPc = "full"
    /\ bNext > Len(bRequests)
    /\ bRequests' = <<>>
    /\ bTensors' = <<>>
    /\ bNext' = 1
    /\ bPc' = "recv"
    /\ UNCHANGED <<bReqs, bBatchSize, bPos, bOut, clientVars, streamVars, auxVars>>

\* lines 345-364: the client closed the request stream
BatchClosed ==
    /\ bPc = "recv"
    /\ bPos = Len(bReqs)
    /\ bPc' = IF bTensors # <<>> THEN "rest" ELSE "done"
    /\ bNext' = 1
    /\ UNCHANGED <<bReqs, bBatchSize, bPos, bRequests, bTensors, bOut,
                   clientVars, streamVars, auxVars>>

----------------------------------------------------------------------------
(* The directories of the endpoint at the start *)

FileInit ==
    /\ now = <<0, 0>>
    /\ uploads = <<>>
    /\ results = <<>>

\* the file variables while the endpoint is not the subject
FileIdle == FileInit

----------------------------------------------------------------------------
(* The diagnosis functions: detector, local service, conversion of a remote  *)
(* response, severity rules.  Confidences are in percent.                    *)

\* bounds of the inputs
MaxBoxes == 2
MaxContours == 11
MaxFindings == 2

\* confidences tried: each threshold of the code, and a value on either side
ConfLevels == {0, 29, 30, 49, 50, 51, 60, 61, 70, 71, 80, 81, 85, 100}

\* trained_model_loader.ANOMALY_CLASSES (the service has the same list)
ANOMALY_CLASSES ==
    << "normal", "tumor", "infection", "hemorrhage", "fracture", "edema",
       "atelectasis", "pneumothorax", "consolidation", "other_anomaly" >>

\* faulty variant of AnomalyInfo: the default entry is used for every class
AnomalyInfoDefault(class) == [severity |-> "low", urgency |-> "routine"]

\* trained_model_loader.ANOMALY_DESCRIPTIONS[class]: severity and urgency
AnomalyInfo(class) ==
    CASE class = "normal" -> [severity |-> "none", urgency |-> "routine"]
      [] class = "tumor" -> [severity |-> "high", urgency |-> "urgent"]
      [] class = "infection" -> [severity |-> "moderate", urgency |-> "semi-urgent"]
      [] class = "hemorrhage" -> [severity |-> "critical", urgency |-> "immediate"]
      [] class = "fracture" -> [severity |-> "moderate", urgency |-> "urgent"]
      [] class = "edema" -> [severity |-> "moderate", urgency |-> "semi-urgent"]
      [] class = "atelectasis" -> [severity |-> "moderate", urgency |-> "semi-urgent"]
      [] class = "pneumothorax" -> [severity |-> "high", urgency |-> "urgent"]
      [] class = "consolidation" -> [severity |-> "moderate", urgency |-> "semi-urgent"]
      [] OTHER -> [severity |-> "low", urgency |-> "routine"]

\* the prediction dicts, reduced to the fields the results keep
Prediction(has, class, conf, sev, urg) ==
    [has_anomaly |-> has, anomaly_class |-> class, confidence |-> conf,
     severity |-> sev, urgency |-> urg]

\* TrainedModelLoader.predict with a model (lines 273-320)
ModelPredict(idx, conf) ==
    LET class == IF idx < Len(ANOMALY_CLASSES) THEN ANOMALY_CLASSES[idx + 1]
                 ELSE "other_anomaly"
        info == AnomalyInfo(class)
    IN Prediction(class # "normal", class, conf, info.severity, info.urgency)

\* TrainedModelLoader._fallback_prediction (lines 364-373); has is the
\* outcome of the edge / intensity heuristic
LoaderFallback(has) ==
    Prediction(has, IF has THEN "other_anomaly" ELSE "normal",
               IF has THEN 50 ELSE 80, IF has THEN "low" ELSE "none", "routine")

\* AnomalyDetector._fallback_prediction (lines 229-255)
DetectorFallback(has) ==
    Prediction(has, IF has THEN "other_anomaly" ELSE "normal",
               IF has THEN 60 ELSE 80, IF has THEN "low" ELSE "none", "routine")

\* a result: the prediction fields plus the region list and the measurements;
\* regions says whether the result carries them, measured whether
\* measurements has its num_regions key
Result(pred, regions, boxes, measured, n) ==
    [has_anomaly |-> pred.has_anomaly, anomaly_class |-> pred.anomaly_class,
     confidence |-> pred.confidence, severity |-> pred.severity,
     urgency |-> pred.urgency, regions |-> regions, bounding_boxes |-> boxes,
     measured |-> measured, num_regions |-> n]

\* n regions, numbered
Boxes(n) == [i \in 1..n |-> i]

\* AnomalyDetector.detect (lines 93-178)
DetectorDetect(in) ==
    IF ~in.loadable
    THEN Result(Prediction(FALSE, "error", 0, "none", "routine"),
                TRUE, <<>>, FALSE, 0)
    ELSE LET prediction ==
                 IF in.loader
                 THEN IF in.model THEN ModelPredict(in.idx, in.conf)
                      ELSE LoaderFallback(in.heuristic)
                 ELSE DetectorFallback(in.heuristic)
             bounding_boxes == Boxes(in.boxes)
         IN Result(prediction, TRUE, bounding_boxes, TRUE, Len(bounding_boxes))

\* AnomalyDetectionService._segment_and_measure (lines 275-354): at most ten
\* of the significant contours become boxes.  On an exception it returns
\* None, [], {}; with no significant contour the loop of line 313 never
\* binds pixel_to_mm (line 319), line 342 raises UnboundLocalError and the
\* result is None, [], {} as well
SegmentAndMeasure(contours, fails) ==
    IF fails \/ contours = 0
    THEN [bboxes |-> <<>>, measured |-> FALSE, num_regions |-> 0]
    ELSE LET bboxes == Boxes(IF contours < 10 THEN contours ELSE 10)
         IN [bboxes |-> bboxes, measured |-> TRUE, num_regions |-> Len(bboxes)]

\* AnomalyDetectionService.detect_anomaly (lines 200-273); the dict has no
\* severity or urgency; in.contours is the number of significant contours
ServiceDetect(in) ==
    IF ~in.loadable
    THEN Result(Prediction(FALSE, "error", 0, "absent", "absent"),
                FALSE, <<>>, FALSE, 0)
    ELSE LET predicted_class == ANOMALY_CLASSES[in.idx + 1]
             has_anomaly == predicted_class # "normal" /\ in.conf > 50
             pred == Prediction(has_anomaly, predicted_class, in.conf,
                                "absent", "absent")
         IN IF in.return_segmentation /\ has_anomaly
            THEN LET m == SegmentAndMeasure(in.contours, in.segfails)
                 IN Result(pred, TRUE, m.bboxes, m.measured, m.num_regions)
            ELSE Result(pred, FALSE, <<>>, FALSE, 0)

\* str.lower() on the names the remote service sends
Lower(s) ==
    CASE s = "Normal" -> "normal"
      [] s = "NORMAL" -> "normal"
      [] s = "Brain_Tumor" -> "brain_tumor"
      [] OTHER -> s

\* faulty variant of FindingBoxes: a finding whose bbox the server did not
\* set gets no box
FindingBoxesIfSet(findings) ==
    SelectSeq([i \in 1..Len(findings) |->
                  [id |-> i - 1, empty |-> ~findings[i].has_bbox]],
              LAMBDA box : ~box.empty)

\* the loop of lines 361-426: finding.bbox is a sub-message of the response,
\* which is truthy whether the server set it or not, so `if finding.bbox`
\* lets every finding through; a bbox that was not set reads as zeros
FindingBoxes(findings) ==
    [i \in 1..Len(findings) |-> [id |-> i - 1, empty |-> ~findings[i].has_bbox]]

\* GrpcAnomalyClient._convert_grpc_response_to_dict (lines 328-500)
ConvertToDict(in) ==
    IF in.status # "COMPLETED"
    THEN Result(Prediction(FALSE, "absent", 0, "absent", "absent"),
                FALSE, <<>>, FALSE, 0)
    ELSE LET has_anomaly == Lower(in.primary_diagnosis) # "normal"
             anomaly_class ==
                 IF in.findings # <<>>
                 THEN IF in.findings[1].pathology # ""
                      THEN Lower(in.findings[1].pathology) ELSE "unknown"
                 ELSE "normal"
         IN Result(Prediction(has_anomaly, anomaly_class, in.conf,
                              "absent", "absent"),
                   TRUE, FindingBoxes(in.findings), TRUE, Len(in.findings))

\* faulty variant of ServiceSeverity: the comparison of the second test of
\* the grave classes is turned round
ServiceSeverityFlipped(anomaly_class, confidence, total_area, num_regions) ==
    IF anomaly_class \in {"tumor", "hemorrhage", "pneumothorax"}
       /\ confidence > 80 /\ total_area > 500
    THEN "GRAVE"
    ELSE IF anomaly_class \in {"tumor", "hemorrhage", "pneumothorax"}
            /\ confidence < 60
    THEN "MODÉRÉE"
    ELSE IF confidence > 70 /\ num_regions > 3
    THEN "MODÉRÉE"
    ELSE "LÉGÈRE"

\* AnomalyDetectionService._determine_severity (lines 560-585)
ServiceSeverity(anomaly_class, confidence, total_area, num_regions) ==
    IF anomaly_class \in {"tumor", "hemorrhage", "pneumothorax"}
       /\ confidence > 80 /\ total_area > 500
    THEN "GRAVE"
    ELSE IF anomaly_class \in {"tumor", "hemorrhage", "pneumothorax"}
            /\ confidence > 60
    THEN "MODÉRÉE"
    ELSE IF confidence > 70 /\ num_regions > 3
    THEN "MODÉRÉE"
    ELSE "LÉGÈRE"

\* ReportGenerator._determine_severity (lines 257-266), SEVERITY_THRESHOLDS
\* normal 0.3, mild 0.5, moderate 0.7
FindingSeverity(confidence) ==
    IF confidence < 30 THEN "normal"
    ELSE IF confidence < 50 THEN "mild"
    ELSE IF confidence < 70 THEN "moderate"
    ELSE "severe"

\* the order of the severities of the local service (LÉGÈRE, MODÉRÉE, GRAVE)
ServiceRank(s) == CASE s = "LÉGÈRE" -> 1 [] s = "MODÉRÉE" -> 2 [] s = "GRAVE" -> 3

\* the order of the severities of the report generator
FindingRank(s) ==
    CASE s = "normal" -> 0 [] s = "mild" -> 1 [] s = "moderate" -> 2
      [] s = "severe" -> 3

\* the order of the severities of the detector
DetectorRank(s) ==
    CASE s = "none" -> 0 [] s = "low" -> 1 [] s = "moderate" -> 2
      [] s = "high" -> 3 [] s = "critical" -> 4

\* the inputs of the runs
DetectorInputs ==
    [path : {"detector"}, loadable : BOOLEAN, loader : BOOLEAN, model : BOOLEAN,
     heuristic : BOOLEAN, idx : 0..Len(ANOMALY_CLASSES), conf : {0, 50, 51, 100},
     boxes : 0..MaxBoxes]

ServiceInputs ==
    [path : {"service"}, loadable : BOOLEAN, idx : 0..(Len(ANOMALY_CLASSES) - 1),
     conf : {0, 50, 51, 100}, return_segmentation : BOOLEAN,
     contours : {0, 1, MaxContours}, segfails : BOOLEAN]

\* the findings of a response: the pathology, and whether the server set
\* finding.bbox
Findings ==
    UNION { [1..n -> [pathology : {"brain_tumor", "Brain_Tumor", ""},
                      has_bbox : BOOLEAN]] : n \in 0..MaxFindings }

ConvertInputs ==
    [path : {"convert"}, status : {"COMPLETED", "ERROR"},
     primary_diagnosis : {"normal", "Normal", "abnormal_mild"},
     conf : {51}, findings : Findings]

SeverityInputs ==
    [path : {"severity"}, anomaly_class : {"tumor", "infection", "other_anomaly"},
     conf : ConfLevels, total_area : {0, 500, 501}, num_regions : {0, 3, 4}]

FindingInputs == [path : {"finding"}, conf : ConfLevels]

\* the place of a severity name in the order of Python strings
\* ("mild" < "moderate" < "normal" < "severe")
StringOrder(s) ==
    CASE s = "mild" -> 1 [] s = "moderate" -> 2 [] s = "normal" -> 3
      [] s = "severe" -> 4

\* max((f.severity for f in findings), default='normal') of
\* _generate_recommendations (line 343): the greatest name as a string
MaxSeverity(severities) ==
    IF severities = <<>> THEN "normal"
    ELSE LET i == CHOOSE i \in 1..Len(severities) :
                      \A j \in 1..Len(severities) :
                          StringOrder(severities[j]) <= StringOrder(severities[i])
         IN severities[i]

\* ReportGenerator._generate_findings (lines 218-255): the severities of the
\* findings, one per bounding box, or the single normal finding
FindingSeverities(in) ==
    IF ~in.has_anomaly THEN <<"normal">>
    ELSE [i \in 1..Len(in.box_confidences) |->
              FindingSeverity(in.box_confidences[i])]

\* ReportGenerator._generate_recommendations (lines 327-349): whether the
\* priority warning is put in front of the recommendations
GenerateRecommendations(in) ==
    LET severities == FindingSeverities(in) IN
    [findings |-> severities,
     warning |-> in.has_anomaly
                 /\ MaxSeverity(severities) \in {"moderate", "severe"}]

\* a detection result given to the report generator: the confidences of its
\* boxes, one in each band of SEVERITY_THRESHOLDS
ReportInputs ==
    [path : {"report"}, has_anomaly : BOOLEAN,
     box_confidences : UNION { [1..n -> {20, 40, 60, 80}] : n \in 0..MaxBoxes }]

EvalInit ==
    /\ eIn \in DetectorInputs \cup ServiceInputs \cup ConvertInputs
                 \cup SeverityInputs \cup FindingInputs \cup ReportInputs
    /\ eOut = <<>>

\* the diagnosis variables while the functions are not the subject
EvalIdle ==
    /\ eIn = [path |-> "none"]
    /\ eOut = <<>>

RunDetector ==
    /\ eIn.path = "detector"
    /\ eOut = <<>>
    /\ eOut' = <<DetectorDetect(eIn)>>
    /\ UNCHANGED <<eIn, clientVars, streamVars, batchVars, fileVars>>

RunService ==
    /\ eIn.path = "service"
    /\ eOut = <<>>
    /\ eOut' = <<ServiceDetect(eIn)>>
    /\ UNCHANGED <<eIn, clientVars, streamVars, batchVars, fileVars>>

RunConvert ==
    /\ eIn.path = "convert"
    /\ eOut = <<>>
    /\ eOut' = <<ConvertToDict(eIn)>>
    /\ UNCHANGED <<eIn, clientVars, streamVars, batchVars, fileVars>>

RunSeverity ==
    /\ eIn.path = "severity"
    /\ eOut = <<>>
    /\ eOut' = <<[severity |-> ServiceSeverity(eIn.anomaly_class, eIn.conf,
                                               eIn.total_area, eIn.num_regions)]>>
    /\ UNCHANGED <<eIn, clientVars, streamVars, batchVars, fileVars>>

RunFinding ==
    /\ eIn.path = "finding"
    /\ eOut = <<>>
    /\ eOut' = <<[severity |-> FindingSeverity(eIn.conf)]>>
    /\ UNCHANGED <<eIn, clientVars, streamVars, batchVars, fileVars>>

RunReport ==
    /\ eIn.path = "report"
    /\ eOut = <<>>
    /\ eOut' = <<GenerateRecommendations(eIn)>>
    /\ UNCHANGED <<eIn, clientVars, streamVars, batchVars, fileVars>>

----------------------------------------------------------------------------
(* Regions and their measurements.  Contour areas are in half pixels (the    *)
(* areas cv2.contourArea returns are multiples of 0.5), physical areas in    *)
(* half mm2, pixel spacings in whole mm; a spacing that is None is <<>>.     *)

\* the most contours one pass of findContours returns
MaxAreas == 2

\* contour areas tried (49, 50, 50.5, 99.5, 100 and 100.5 pixels)
ContourAreas == {98, 100, 101, 199, 200, 201}

ContourLists == UNION { [1..n -> ContourAreas] : n \in 0..MaxAreas }

PixelSpacings == {<<>>, <<1, 1>>, <<1, 2>>}

\* int(area) of detector.py lines 294 and 328
AreaPixels(area2) == area2 \div 2

\* BoundingBox of _detect_regions (lines 283-297, 318-331); area_mm2 is
\* None when has_mm is false
MakeBox(label, i, confidence, area2, pixel_spacing) ==
    [label |-> <<label, i>>, confidence |-> confidence,
     area_pixels |-> AreaPixels(area2),
     has_mm |-> pixel_spacing # <<>>,
     area_mm2 |-> IF pixel_spacing # <<>>
                  THEN area2 * pixel_spacing[1] * pixel_spacing[2] ELSE 0]

\* the loop over the contours of one pass: those below the floor are skipped,
\* the others become boxes labelled with their position in the list
RECURSIVE BoxesFrom(_, _, _, _, _, _)
BoxesFrom(contours, i, floor2, label, confidence, pixel_spacing) ==
    IF i > Len(contours) THEN <<>>
    ELSE IF contours[i] < floor2
         THEN BoxesFrom(contours, i + 1, floor2, label, confidence, pixel_spacing)
         ELSE <<MakeBox(label, i, confidence, contours[i], pixel_spacing)>>
              \o BoxesFrom(contours, i + 1, floor2, label, confidence,
                           pixel_spacing)

\* AnomalyDetector._detect_regions (lines 257-333): the heatmap pass (area
\* floor 50) when there is a heatmap, then the edge pass (area floor 100,
\* confidence 0.5) when there is no box yet
DetectRegions(in) ==
    LET bounding_boxes ==
            IF in.heatmap
            THEN BoxesFrom(in.heat_contours, 1, 100, "attention_region",
                           in.heat_conf, in.pixel_spacing)
            ELSE <<>>
    IN IF Len(bounding_boxes) = 0
       THEN BoxesFrom(in.edge_contours, 1, 200, "detected_region", 50,
                      in.pixel_spacing)
       ELSE bounding_boxes

\* the result of a region run: the boxes as dicts (_box_to_dict keeps
\* area_mm2 only when it is not None) and whether the aggregate measurements
\* have their mm entries
RegionResult(boxes, total_mm) == [bounding_boxes |-> boxes, total_mm |-> total_mm]

\* _detect_regions, _box_to_dict and _calculate_measurements as
\* AnomalyDetector.detect chains them (lines 127-154)
DetectorRegions(in) ==
    RegionResult(DetectRegions(in), in.pixel_spacing # <<>>)

\* a box of the local service or of the conversion of a remote response:
\* both compute area_mm2, perimeter_mm, width_mm and height_mm from
\* pixel_to_mm = 0.5, whatever the image
AssumedBox(i) == [label |-> <<"region", i>>, has_mm |-> TRUE]

\* img_array.size of the images tried
ImageSizes == {50000, 100000}

\* min_area = img_array.size * 0.001 (line 302), in half pixels
MinArea(size) == (2 * size) \div 1000

\* AnomalyDetectionService._segment_and_measure (lines 302-354), measurements
\* side: one box, with mm fields, for each of the first ten contours above
\* min_area, and total_area_mm2; with no such contour pixel_to_mm is unbound
\* at line 342 and the measurements are {}
ServiceRegions(in) ==
    LET significant_contours ==
            SelectSeq(in.contours, LAMBDA a : a > MinArea(in.size))
        n == Min(Len(significant_contours), 10)
    IN IF n = 0
       THEN RegionResult(<<>>, FALSE)
       ELSE RegionResult([i \in 1..n |-> AssumedBox(i)], TRUE)

\* _convert_grpc_response_to_dict (lines 357-426, 453-463), measurements
\* side: one box per finding, all with mm fields, and total_area_mm2
RemoteRegions(in) ==
    RegionResult([i \in 1..in.findings |-> AssumedBox(i)], TRUE)

RegionInputs ==
    [path : {"regions"}, heatmap : BOOLEAN, heat_contours : ContourLists,
     edge_contours : ContourLists, heat_conf : {75},
     pixel_spacing : PixelSpacings]

SegmentInputs ==
    [path : {"segment"}, contours : ContourLists, size : ImageSizes,
     pixel_spacing : PixelSpacings]

RemoteInputs == [path : {"remote"}, findings : 0..MaxAreas]

RegionInit ==
    /\ eIn \in RegionInputs \cup SegmentInputs \cup RemoteInputs
    /\ eOut = <<>>

RunRegions ==
    /\ eIn.path = "regions"
    /\ eOut = <<>>
    /\ eOut' = <<DetectorRegions(eIn)>>
    /\ UNCHANGED <<eIn, clientVars, streamVars, batchVars, fileVars>>

RunSegment ==
    /\ eIn.path = "segment"
    /\ eOut = <<>>
    /\ eOut' = <<ServiceRegions(eIn)>>
    /\ UNCHANGED <<eIn, clientVars, streamVars, batchVars, fileVars>>

RunRemote ==
    /\ eIn.path = "remote"
    /\ eOut = <<>>
    /\ eOut' = <<RemoteRegions(eIn)>>
    /\ UNCHANGED <<eIn, clientVars, streamVars, batchVars, fileVars>>

vars == <<clientVars, streamVars, batchVars, auxVars>>

\* the parts modelled further down, while they are not the subject
AuxIdle == FileIdle /\ EvalIdle

Init == ClientInit /\ StreamIdle /\ BatchIdle /\ FileInit /\ EvalIdle

Next ==
    \E t \in SeqTasks :
       \/ StartEndpoint(t)
       \/ StartBatch(t)
       \/ StartReport(t)
       \/ StartVisualization(t)
       \/ StartDelete(t)
       \/ StartStatus(t)
       \/ StartModelInfo(t)
       \/ StartDetect(t)
       \/ StartHealth(t)
       \/ StartConnect(t)
       \/ StartDisconnect(t)
       \/ CloseDone(t)
       \/ SleepDone(t)
       \/ ProbeDone(t)
       \/ HealthDone(t)
       \/ DiagnoseDone(t)

Spec == Init /\ [][Next]_vars

\* the awaits of connect end: the probe is bounded by wait_for(..., 5.0),
\* the sleeps are finite and channel.close() completes
ConnectAwaitEnds(t) == CloseDone(t) \/ SleepDone(t) \/ ProbeDone(t)

\* the sequential specification with connect's awaits ending
SpecLive == Spec /\ \A t \in SeqTasks : WF_vars(ConnectAwaitEnds(t))

\* number of operations started in one behaviour of the concurrent
\* specification
MaxConcCalls == 2

\* a caller of the concurrent specification starts an operation on a
\* readable .dcm file without anomaly; all its calls arrive at one reading
\* of the clock
StartConc(t) ==
    /\ calls < MaxConcCalls
    /\ \/ EndpointOn(t, {PlainDcm}, BOOLEAN)
       \/ StartStatus(t)
       \/ StartModelInfo(t)
       \/ DetectOn(t, {PlainDcm}, BOOLEAN)
       \/ StartHealth(t)
       \/ StartConnect(t)
       \/ StartDisconnect(t)
    /\ now' = now

\* concurrent callers of the shared client, with cancellation
NextConc ==
    \E t \in AllTasks :
       \/ StartConc(t)
       \/ CloseDone(t)
       \/ SleepDone(t)
       \/ ProbeDone(t)
       \/ HealthDone(t)
       \/ DiagnoseDone(t)
       \/ LockGranted(t)
       \/ Cancel(t)

SpecConc == Init /\ [][NextConc]_vars

\* the client variables while the client is not the subject
ClientIdle == ClientInit /\ grpcAvailable = TRUE

SpecStreamInit == ClientIdle /\ StreamInit /\ BatchIdle /\ AuxIdle

SpecStreamNext ==
    \/ StreamRecv
    \/ StreamRecvFails
    \/ StreamCancelled
    \/ StreamUploaded
    \/ StreamPreprocess
    \/ StreamPredict
    \/ StreamBuild

SpecStream == SpecStreamInit /\ [][SpecStreamNext]_vars

SpecBatchInit == ClientIdle /\ StreamIdle /\ BatchInit /\ AuxIdle

SpecBatchNext ==
    \/ BatchRecv
    \/ BatchAnswer
    \/ BatchReset
    \/ BatchClosed

SpecBatch == SpecBatchInit /\ [][SpecBatchNext]_vars

SpecEvalInit == ClientIdle /\ StreamIdle /\ BatchIdle /\ FileIdle /\ EvalInit

SpecEvalNext ==
    \/ RunDetector
    \/ RunService
    \/ RunConvert
    \/ RunSeverity
    \/ RunFinding
    \/ RunReport

SpecEval == SpecEvalInit /\ [][SpecEvalNext]_vars

SpecRegionsInit == ClientIdle /\ StreamIdle /\ BatchIdle /\ FileIdle /\ RegionInit

SpecRegionsNext ==
    \/ RunRegions
    \/ RunSegment
    \/ RunRemote

SpecRegions == SpecRegionsInit /\ [][SpecRegionsNext]_vars

\* number of requests in one behaviour of the specification of concurrent
\* requests to the endpoint
MaxFileCalls == 2

\* POST /anomaly/detect with a readable .dcm file and the default options
StartFiles(t) ==
    /\ calls < MaxFileCalls
    /\ EndpointOn(t, ReadableDcm, {TRUE})

\* a request to one of the other endpoints that write or delete files
StartFileOp(t) ==
    /\ calls < MaxFileCalls
    /\ \/ BatchOn(t, {PlainDcm})
       \/ StartReport(t)
       \/ StartVisualization(t)
       \/ StartDelete(t)

\* concurrent requests to the endpoints
SpecFilesNext ==
    \E t \in AllTasks :
       \/ StartFiles(t)
       \/ StartFileOp(t)
       \/ LockGranted(t)
       \/ CloseDone(t)
       \/ SleepDone(t)
       \/ ProbeDone(t)
       \/ HealthDone(t)
       \/ DiagnoseDone(t)

SpecFiles == Init /\ [][SpecFilesNext]_vars

----------------------------------------------------------------------------
(* Claims about the unary path *)

\* a diagnosis call (endpoint or client.detect_anomaly) of task t has ended
Ended(t) == tk[t].pc = "done" /\ tk[t].op \in {"endpoint", "detect"}

\* C1: with the remote service unavailable (every RPC so far ended
\* UNAVAILABLE), every unary diagnosis call on a decodable image, through
\* the endpoint or through GrpcAnomalyClient.detect_anomaly, returns a result
\* tagged backend_used = "local" and raises nothing.
C1_FallbackAvailability ==
    \A t \in AllTasks :
        (Ended(t) /\ onlyUnavail /\ tk[t].decodable)
            => (tk[t].out = "returned" /\ tk[t].tag = "local")

\* C2: on a decodable image, when DiagnoseDicom kept failing with a transient failure (UNAVAILABLE
\* or timeout) until the retry budget max_retries was used up,
\* detect_anomaly ran the local pipeline and returned its result.
C2_RetryThenFallback ==
    \A t \in AllTasks :
        (tk[t].det # "none" /\ tk[t].decodable /\ tk[t].dRetries = max_retries)
            => (tk[t].det = "local" /\ tk[t].localRuns >= 1)

\* C3: every result the endpoint returns for a decodable image is tagged, and the tag names the
\* backend that computed it: "local" exactly when the local pipeline produced
\* it, the remote tag exactly when the remote service did.
C3_TagNamesProducer ==
    \A t \in AllTasks :
        (tk[t].pc = "done" /\ tk[t].op = "endpoint" /\ tk[t].out = "returned"
            /\ tk[t].decodable)
            => /\ tk[t].tag \in {"local", "grpc"}
               /\ (tk[t].tag = "local") <=> (tk[t].producer = "local")
               /\ (tk[t].tag = "grpc") <=> (tk[t].producer = "remote")

\* C4: per request the local pipeline runs at most once, never when the
\* remote service returned a COMPLETED response for that request, and a
\* returned result comes from exactly one backend: the local one exactly
\* when the local pipeline ran.
C4_OneBackendPerRequest ==
    \A t \in AllTasks :
        /\ tk[t].op \in {"endpoint", "detect"} => tk[t].localRuns <= 1
        /\ tk[t].remoteCompleted => tk[t].localRuns = 0
        /\ (Ended(t) /\ tk[t].out = "returned")
              => /\ tk[t].producer \in {"remote", "local"}
                 /\ (tk[t].producer = "local") <=> (tk[t].localRuns = 1)

\* C4 witness: an endpoint request whose first DiagnoseDicom attempt failed,
\* whose retry got a COMPLETED response, and which returned that result.
C4_Witness ==
    \E t \in AllTasks :
        /\ tk[t].pc = "done" /\ tk[t].op = "endpoint" /\ tk[t].out = "returned"
        /\ tk[t].remoteCompleted /\ tk[t].attempts >= 2

\* C5: a diagnosis call on an undecodable image ends with an error for the
\* caller; it never returns a result dict (has_anomaly = False).
C5_DecodeErrorSurfaces ==
    \A t \in AllTasks :
        (Ended(t) /\ ~tk[t].decodable) => tk[t].out = "raised"

\* C6: on a decodable image, a DiagnoseDicom RPC that failed with INVALID_ARGUMENT is not retried,
\* detect_anomaly ends with the error, and the local pipeline is not run by
\* detect_anomaly.
C6_InvalidArgumentSurfaces ==
    \A t \in AllTasks :
        (tk[t].invalid /\ tk[t].decodable /\ tk[t].det # "none")
            => (tk[t].det = "raised" /\ (tk[t].op = "detect" => tk[t].localRuns = 0))

\* C10: a request for a decodable image started after a failed health check or an UNAVAILABLE
\* DiagnoseDicom, with no successful connection attempt since, never returns
\* a result computed by the remote service.
C10_DegradedServesLocal ==
    \A t \in AllTasks :
        (Ended(t) /\ tk[t].startedDegraded /\ tk[t].decodable
            /\ tk[t].out = "returned")
            => ~(tk[t].producer = "remote" /\ tk[t].kind = "diag")

----------------------------------------------------------------------------
(* Claims about the streaming handlers *)

\* the ids answered so far, and how often each
Answers(i) == Cardinality({k \in 1..Len(bOut) : bOut[k].request_id = i})

\* C7: once the client has closed the request stream and DiagnoseBatch has
\* ended, every submitted request has exactly one response carrying its
\* request_id, whatever the count, the batch size and the payloads.
C7_OneResponsePerRequest ==
    bPc = "done" =>
        /\ Len(bOut) = Len(bReqs)
        /\ \A i \in 1..Len(bReqs) : Answers(i) = 1

Terminal == {"COMPLETED", "ERROR"}

\* the generator has ended: after its terminal message, or by an exception
\* its handler does not catch
StreamEnded == sPc \in {"done", "cancelled"}

C9_ReassemblyRoundTrip ==
    LET n == Cardinality({k \in 1..Len(sReqs) : sReqs[k].field = "chunk"}) IN
    /\ n * sChunkSize >= Len(sPayload)
    /\ n > 0 => (n - 1) * sChunkSize < Len(sPayload)
    /\ \A k \in 1..Len(sReqs) :
          sReqs[k].field = "chunk" =>
              (Len(sReqs[k].chunk) >= 1 /\ Len(sReqs[k].chunk) <= sChunkSize)
    /\ sPc \in {"preprocess", "predict", "build"} => sData = sPayload

\* C9 witness: a payload sent as several chunks, the last one shorter than
\* chunk_size, has been reassembled by the server.
C9_Witness ==
    /\ sPc = "preprocess"
    /\ Len(sChunks) >= 2
    /\ Len(sChunks[Len(sChunks)]) < sChunkSize
    /\ \E i, j \in 1..Len(sPayload) : sPayload[i] # sPayload[j]

----------------------------------------------------------------------------
(* Claims about concurrent use of the shared client *)

\* positions of connect between the creation of a channel and the end of
\* the attempt loop (probe, close after a failed probe, backoff sleep)
AttemptLabels == {"c_probe", "c_tclose", "c_eclose", "c_sleep"}

Attempting == {t \in AllTasks : tk[t].pc \in AttemptLabels}

\* C11: on the shared client, under any interleaving of connect,
\* health_check and detect_anomaly calls, at most one connection attempt
\* (channel creation plus probe) is in progress at a time: the task making it
\* holds _connection_lock, and a task that finds the lock held waits
\* instead of starting an attempt of its own.
C11_OneConnectAttempt ==
    /\ Cardinality(Attempting) <= 1
    /\ \A t \in Attempting : lock = t
    /\ \A t \in AllTasks : tk[t].pc = "c_wait" => lock # t

\* C11 witness: one task is probing a new channel while the other, which
\* also needs a connection, is suspended on the lock.
C11_Witness ==
    /\ tk[1].pc = "c_probe"
    /\ tk[2].pc = "c_wait"
    /\ tk[2].op \in {"endpoint", "detect", "health"}

\* the session state shared by the callers
Session == <<connected, channel, stub>>

\* task t is the one that took the step: the step is one of its actions,
\* whether or not its record ends as it was
Acts(t) ==
    \/ StartConc(t)
    \/ StartEndpoint(t)
    \/ StartBatch(t)
    \/ StartReport(t)
    \/ StartVisualization(t)
    \/ StartDelete(t)
    \/ StartStatus(t)
    \/ StartModelInfo(t)
    \/ StartDetect(t)
    \/ StartHealth(t)
    \/ StartConnect(t)
    \/ StartDisconnect(t)
    \/ CloseDone(t)
    \/ SleepDone(t)
    \/ ProbeDone(t)
    \/ HealthDone(t)
    \/ DiagnoseDone(t)
    \/ LockGranted(t)
    \/ Cancel(t)

\* C12: every step that changes _connected, channel or stub is taken by a
\* task that holds _connection_lock during the step, and no task holds the
\* lock while its DiagnoseDicom RPC is in flight.
C12_SessionChangesUnderLock ==
    /\ [](\A t \in AllTasks : tk[t].pc = "d_rpc" => lock # t)
    /\ [][Session' # Session =>
             \E t \in AllTasks : Acts(t) /\ (lock = t \/ lock' = t)]_vars

\* the task is inside GrpcAnomalyClient.detect_anomaly (possibly inside the
\* connect it called)
InDetect(r) ==
    \/ r.pc \in {"d_rpc", "d_sleep"}
    \/ \E i \in 1..Len(r.stack) : r.stack[i] \in {"d_stub", "d_reconnected"}

\* C13: cancelling a detect_anomaly call at any await leaves _connected,
\* channel and stub as they were when the cancellation arrived: every step
\* that is the delivery of a cancellation to a task inside detect_anomaly
\* keeps the session state.
C13_CancelKeepsSession ==
    [][\A t \in AllTasks :
          (InDetect(tk[t]) /\ Cancel(t)) => Session' = Session]_vars

\* a request that has saved its upload and not yet returned
InFlight(r) == r.op = "endpoint" /\ r.pc \notin {"idle", "done"}

\* C14: two /anomaly/detect requests in flight at the same time never use the
\* same upload file or result file, each has its own image_id, and every
\* request analyses the image it uploaded and keeps its own result file.
C14_RequestsShareNothing ==
    /\ \A t, u \in AllTasks :
          (t # u /\ InFlight(tk[t]) /\ InFlight(tk[u])) =>
              /\ UploadName(tk[t].timestamp, tk[t].ext)
                    # UploadName(tk[u].timestamp, tk[u].ext)
              /\ ResultName(tk[t].timestamp) # ResultName(tk[u].timestamp)
              /\ ImageId(tk[t]) # ImageId(tk[u])
    /\ \A t \in AllTasks :
          (tk[t].op = "endpoint" /\ tk[t].analysed # 0) =>
              tk[t].analysed = t

\* C15: health_check is side-effect-free: no step of a health_check call,
\* from its start to its return and in whatever session state it starts,
\* changes _connected, channel or stub.
C15_HealthCheckKeepsSession ==
    [][\A t \in AllTasks :
          (tk'[t].op = "health" /\ Acts(t)) => Session' = Session]_vars

----------------------------------------------------------------------------
(* Claims about the batch buffer *)

\* C16: at every point of DiagnoseBatch the number of buffered requests
\* (batch_requests) is at most batch_size, and batch_tensors and
\* batch_requests have the same length.
C16_BatchBufferBounded ==
    /\ Len(bRequests) <= bBatchSize
    /\ Len(bTensors) = Len(bRequests)

\* C16 witness: every request of a full batch of at least two has been
\* answered, the buffers are still full, and the client still has requests to
\* send.
C16_Witness ==
    /\ bPc = "full"
    /\ bNext > Len(bRequests)
    /\ Len(bRequests) = bBatchSize
    /\ bBatchSize >= 2
    /\ bPos < Len(bReqs)
    /\ Len(bOut) >= bBatchSize

\* the result of the run, once there is one
Computed(paths) == eIn.path \in paths /\ eOut # <<>>

\* C17: every result of the detector (its error result included), of the
\* local service and of the conversion of a remote response that reports a
\* class has has_anomaly true exactly when that class is not "normal".
C17_HasAnomalyIffNotNormal ==
    (Computed({"detector", "service", "convert"})
     /\ eOut[1].anomaly_class # "absent")
        => (eOut[1].has_anomaly <=> eOut[1].anomaly_class # "normal")

\* C18: a detector result whose class is "normal", from the trained model or
\* from either heuristic fallback, has severity "none" and urgency "routine",
\* however many regions the region detection found.
C18_NormalClassGuard ==
    (Computed({"detector"}) /\ eOut[1].anomaly_class = "normal")
        => (eOut[1].severity = "none" /\ eOut[1].urgency = "routine")

C18_Witness ==
    /\ Computed({"detector"})
    /\ eIn.loader /\ eIn.model
    /\ eOut[1].anomaly_class = "normal"
    /\ Len(eOut[1].bounding_boxes) >= 2

\* C19: in every result that carries a region list and measurements, on the
\* detector, local service and conversion paths, measurements.num_regions is
\* the number of bounding boxes of that result, also when findings of the
\* remote response came without a bounding box; a region list that comes
\* with measurements lacking num_regions is empty.
C19_NumRegionsIsBoxCount ==
    (Computed({"detector", "service", "convert"}) /\ eOut[1].regions) =>
        IF eOut[1].measured
        THEN eOut[1].num_regions = Len(eOut[1].bounding_boxes)
        ELSE eOut[1].bounding_boxes = <<>>

\* C19 witness: the conversion of a COMPLETED response with two findings, one
\* of them without a bounding box, gave two regions and num_regions 2.
C19_Witness ==
    /\ Computed({"convert"})
    /\ Len(eIn.findings) = 2
    /\ eIn.findings[1].has_bbox /\ ~eIn.findings[2].has_bbox
    /\ eOut[1].measured
    /\ eOut[1].num_regions = 2
    /\ Len(eOut[1].bounding_boxes) = 2

\* C20: with the class, the area and the region count fixed, no lower
\* confidence gets a severity of higher rank: in _determine_severity of the
\* local service, in _determine_severity of the report generator, and in the
\* per-class table of the trained model.
C20_SeverityMonotone ==
    /\ Computed({"severity"}) =>
           \A c \in ConfLevels : c <= eIn.conf =>
               ServiceRank(ServiceSeverity(eIn.anomaly_class, c, eIn.total_area,
                                           eIn.num_regions))
                   <= ServiceRank(eOut[1].severity)
    /\ Computed({"finding"}) =>
           \A c \in ConfLevels : c <= eIn.conf =>
               FindingRank(FindingSeverity(c)) <= FindingRank(eOut[1].severity)
    /\ (Computed({"detector"}) /\ eIn.loadable /\ eIn.loader /\ eIn.model) =>
           \A c \in ConfLevels : c <= eIn.conf =>
               DetectorRank(ModelPredict(eIn.idx, c).severity)
                   <= DetectorRank(eOut[1].severity)

C20_Witness ==
    /\ Computed({"severity"})
    /\ eIn.conf > 80
    /\ eIn.total_area > 500
    /\ eOut[1].severity = "GRAVE"
    /\ ServiceSeverity(eIn.anomaly_class, 50, eIn.total_area, eIn.num_regions)
           = "LÉGÈRE"

\* C21: with a heatmap only the heatmap pass produces regions, the edge pass
\* is used only without a heatmap, and a pass that keeps no contour gives an
\* empty list.
C21_AlgorithmByHeatmapPresence ==
    Computed({"regions"}) =>
        LET boxes == eOut[1].bounding_boxes
        IN /\ \A i \in 1..Len(boxes) :
                  boxes[i].label[1] = IF eIn.heatmap THEN "attention_region"
                                      ELSE "detected_region"
           /\ (eIn.heatmap /\ \A i \in 1..Len(eIn.heat_contours) :
                                  eIn.heat_contours[i] < 100)
                  => boxes = <<>>

\* C22: the mm fields of every region, and of the aggregate measurements, are
\* present exactly when the pixel spacing of the image is known; a remote
\* response never has a known spacing.
C22_MmOnlyWithKnownSpacing ==
    Computed({"regions", "segment", "remote"}) =>
        LET known == eIn.path # "remote" /\ eIn.pixel_spacing # <<>>
            boxes == eOut[1].bounding_boxes
        IN /\ \A i \in 1..Len(boxes) : boxes[i].has_mm <=> known
           /\ eOut[1].total_mm <=> known

\* C23: every region of a detector result with a known pixel spacing has
\* area_mm2 = area_pixels * spacing_row * spacing_col (areas in half mm2).
C23_AreaMmIsAreaPixelsTimesSpacing ==
    (Computed({"regions"}) /\ eIn.pixel_spacing # <<>>) =>
        \A i \in 1..Len(eOut[1].bounding_boxes) :
            LET box == eOut[1].bounding_boxes[i]
            IN box.area_mm2 = 2 * box.area_pixels * eIn.pixel_spacing[1]
                                * eIn.pixel_spacing[2]

----------------------------------------------------------------------------
(* Claims about the retry loops and the shared client *)

\* C24: one detect_anomaly call issues at most max_retries DiagnoseDicom
\* RPCs, and, its failures being UNAVAILABLE or timeouts only, its retry loop
\* ends with a response or after max_retries failures.
C24_BoundedRpcAttempts ==
    \A t \in AllTasks :
        /\ tk[t].attempts <= max_retries
        /\ (tk[t].attempts > 0 /\ tk[t].det # "none" /\ ~tk[t].invalid)
               => \/ tk[t].det \in {"remote", "remote_error"}
                  \/ tk[t].dRetries = max_retries

\* the attempts connect(retry) may make
AttemptLimit(r) == IF r.retry THEN max_retries ELSE 1

\* the task is inside a connect() call it made directly
InConnect(r) == r.op = "connect" /\ r.pc \notin {"idle", "done"}

\* the connect() call the task made directly has returned, and the task has
\* not started another operation since
ConnectReturned(r) == r.op = "connect" /\ r.pc = "done" /\ r.out = "returned"

\* C25: a connect(retry) call returns, having made at most max_retries
\* connection attempts, and exactly one when retry is false; it returns with
\* _connected true exactly when one of its health-check probes succeeded,
\* and with _connected false and channel None when every attempt failed.
C25_ConnectBoundedAndExact ==
    /\ [](\A t \in AllTasks :
            /\ tk[t].cAttempts <= AttemptLimit(tk[t])
            /\ tk[t].pc = "c_sleep" => tk[t].cRetries <= AttemptLimit(tk[t])
            /\ tk[t].pc \in {"c_probe", "c_tclose", "c_eclose"}
                   => tk[t].cRetries < AttemptLimit(tk[t])
            /\ ConnectReturned(tk[t]) =>
                  /\ connected <=> tk[t].cProbed
                  /\ grpcAvailable =>
                        /\ tk[t].cAttempts >= 1
                        /\ ~tk[t].retry => tk[t].cAttempts = 1
                  /\ ~tk[t].cProbed =>
                        /\ channel = "None"
                        /\ grpcAvailable =>
                              /\ tk[t].cAttempts = AttemptLimit(tk[t])
                              /\ tk[t].cRetries = AttemptLimit(tk[t]))
    /\ \A t \in AllTasks : InConnect(tk[t]) ~> ConnectReturned(tk[t])

\* C25 witness: a connect(retry=True) that failed in all its attempts has
\* returned, after an earlier connection had been established and given up.
C25_Witness ==
    /\ ConnectReturned(tk[1]) /\ tk[1].retry
    /\ tk[1].cAttempts = max_retries
    /\ ~tk[1].cProbed
    /\ ~connected /\ channel = "None" /\ stub # "None"

\* the detect_anomaly call (direct, or made by the endpoint) is in the
\* connect(retry=False) of its UNAVAILABLE handler
InReconnect(r) ==
    /\ r.op \in {"endpoint", "detect"}
    /\ \E i \in 1..Len(r.stack) : r.stack[i] = "d_reconnected"

\* the DiagnoseDicom RPC of the detect_anomaly call is in flight on the
\* client's current channel
RpcInFlight(r) ==
    r.op \in {"endpoint", "detect"} /\ r.pc = "d_rpc" /\ r.rpc = "cur" /\ ~r.rpcCut

\* C26: with two detect_anomaly calls on one client, no step of the
\* reconnect of one call, the step that enters it included, closes or
\* replaces the channel on which the DiagnoseDicom RPC of the other call is
\* in flight.
C26_ReconnectSparesOtherRpc ==
    [][\A t \in AllTasks : \A u \in AllTasks \ {t} :
          ((InReconnect(tk[t]) \/ InReconnect(tk'[t])) /\ Acts(t)
              /\ RpcInFlight(tk[u]))
              => RpcInFlight(tk'[u])]_vars

\* C27: stub is not None only while it is bound to the current, open
\* channel: never with channel None or closed, so never after a connect()
\* that failed in every attempt and never after disconnect().
C27_StubBoundToOpenChannel ==
    stub # "None" => (stub = "open" /\ channel = "open")

----------------------------------------------------------------------------
(* Further claims about the streaming handlers *)

\* C29: in a DiagnoseDicomStream exchange that ended with COMPLETED, every
\* progress value is within [0, 1], the values never decrease in emission
\* order, and the COMPLETED message has progress 1.0, wherever the metadata
\* message is in the request stream.
C29_ProgressMonotone ==
    (sPc = "done" /\ sOut # <<>> /\ sOut[Len(sOut)].status = "COMPLETED") =>
        /\ \A i \in 1..Len(sOut) :
              sOut[i].progress >= 0 /\ sOut[i].progress <= Tenths(10)
        /\ \A i \in 1..Len(sOut) : \A j \in i..Len(sOut) :
              sOut[i].progress <= sOut[j].progress
        /\ sOut[Len(sOut)].progress = Tenths(10)

\* request i of the batch stream was answered with the given status
Answered(i, status) ==
    \E k \in 1..Len(bOut) : bOut[k].request_id = i /\ bOut[k].status = status

\* C28: when DiagnoseBatch has ended, a request whose preprocessing or
\* inference failed has an ERROR response carrying its request_id, and every
\* other request of the stream, buffered before it or submitted after it, has
\* its response.
C28_BatchRequestsIndependent ==
    bPc = "done" =>
        \A i \in 1..Len(bReqs) :
            IF bReqs[i].decodable /\ bReqs[i].inferOk
            THEN Answered(i, "COMPLETED")
            ELSE Answered(i, "ERROR")

----------------------------------------------------------------------------
(* Claims about the report *)

\* C30: for an anomalous detection result the priority warning is put in
\* front of the recommendations exactly when a generated finding has
\* severity "moderate" or "severe", whatever the severities of the findings.
C30_WarningIffSignificantFinding ==
    (Computed({"report"}) /\ eIn.has_anomaly) =>
        (eOut[1].warning <=>
            \E i \in 1..Len(eOut[1].findings) :
                eOut[1].findings[i] \in {"moderate", "severe"})

====
